---- MODULE Spec2Model ----
(***************************************************************************)
(* A model of sortingnetwork.py: Comparator, ComparisonNetwork, the        *)
(* zero-one verifier (is_sorting_network) and the depth scheduler          *)
(* (_get_optimized_comparators).                                           *)
(*                                                                         *)
(* Python lists are 0-indexed; TLA+ sequences are 1-indexed, so wire w of  *)
(* a list lives at index w + 1 of the sequence that models it.             *)
(* Python strings are modelled as sequences of one-character strings.      *)
(***************************************************************************)
EXTENDS Integers, Sequences, FiniteSets, TLC

VARIABLES comparators, op, arg, argAfter, ret, err, search

vars == <<comparators, op, arg, argAfter, ret, err, search>>

---------------------------------------------------------------------------
(* Bounds of the model *)

\* wire positions 0 .. NumWires-1 of the network object of Spec
NumWires == 3
\* longest comparator list of Spec
MaxLen == 3
\* wire positions and list length of the networks of SpecSort
SortWires == 3
SortLen == 3
\* wire positions and list length of the networks of SpecSched
SchedWires == 4
SchedLen == 4
\* items of sort_sequence are drawn from 0 .. MaxVal
MaxVal == 2
\* wire positions and list length of the networks of SpecVerify
VerWires == 4
VerLen == 4
\* wire positions of the groups of SpecGroup
GroupWires == 6
\* wire positions and list length of the networks of SpecReorder; the items
\* sorted in the scheduler's order have keys 0 .. ReorderVal
ReorderWires == 4
ReorderLen == 3
ReorderVal == 1
\* positions 0 .. MaxPos and string length of SpecComparator
MaxPos == 3
MaxStrLen == 3

---------------------------------------------------------------------------
(* Results of a call: the value returned, or the exception raised *)

NoErr == "none"
ErrSameInputs == "ValueError: Comparator inputs must be different"
ErrInvalidString == "ValueError: Invalid comparator string"
ErrEmpty == "ValueError: Comparison network is empty"
ErrLength == "ValueError: Sequence length does not match number of inputs in the comparison network"
ErrNotInList == "ValueError: list.remove(x): x not in list"

Return(v) == [err |-> NoErr, val |-> v]
Raise(e) == [err |-> e, val |-> <<>>]

SetMin(S) == CHOOSE x \in S : \A y \in S : x <= y
SetMax(S) == CHOOSE x \in S : \A y \in S : x >= y

RECURSIVE Pow2(_)
Pow2(k) == IF k <= 0 THEN 1 ELSE 2 * Pow2(k - 1)

---------------------------------------------------------------------------
(* class Comparator *)

\* Comparator.__init__ without the ordering of the two positions
Comparator_unordered(a, b) ==
    IF a = b THEN Raise(ErrSameInputs) ELSE Return([i1 |-> a, i2 |-> b])

\* Comparator.__init__
Comparator(a, b) ==
    IF a = b THEN Raise(ErrSameInputs)
    ELSE IF a < b THEN Return([i1 |-> a, i2 |-> b])
    ELSE Return([i1 |-> b, i2 |-> a])

DigitChar == <<"0", "1", "2", "3", "4", "5", "6", "7", "8", "9">>
DigitChars == {DigitChar[k] : k \in 1..10}
DigitValue(ch) == (CHOOSE k \in 1..10 : DigitChar[k] = ch) - 1

\* str(int) for a non-negative int: its decimal digits
RECURSIVE IntToStr(_)
IntToStr(k) ==
    IF k < 10 THEN <<DigitChar[k + 1]>>
    ELSE IntToStr(k \div 10) \o <<DigitChar[(k % 10) + 1]>>

\* int(s) for a string of decimal digits
RECURSIVE StrToInt(_)
StrToInt(s) ==
    IF Len(s) = 0 THEN 0
    ELSE 10 * StrToInt(SubSeq(s, 1, Len(s) - 1)) + DigitValue(s[Len(s)])

\* str.isnumeric, on the modelled alphabet: non-empty and only digits
IsNumeric(s) == Len(s) > 0 /\ \A k \in 1..Len(s) : s[k] \in DigitChars

\* str.strip: leading and trailing blanks removed
RECURSIVE Strip(_)
Strip(s) ==
    IF Len(s) = 0 THEN s
    ELSE IF s[1] = " " THEN Strip(Tail(s))
    ELSE IF s[Len(s)] = " " THEN Strip(SubSeq(s, 1, Len(s) - 1))
    ELSE s

\* str.split(sep): the pieces of s between the occurrences of sep
RECURSIVE SplitFrom(_, _, _, _)
SplitFrom(s, sep, k, piece) ==
    IF k > Len(s) THEN <<piece>>
    ELSE IF s[k] = sep THEN <<piece>> \o SplitFrom(s, sep, k + 1, <<>>)
    ELSE SplitFrom(s, sep, k + 1, Append(piece, s[k]))

Split(s, sep) == SplitFrom(s, sep, 1, <<>>)

\* Comparator.__str__
ComparatorStr(c) == IntToStr(c.i1) \o <<":">> \o IntToStr(c.i2)

\* Comparator.__hash__: the hash of the string "i1:i2"; the string stands for
\* its hash (equal strings have equal hashes)
ComparatorHash(c) == ComparatorStr(c)

\* Comparator.__eq__
ComparatorEq(c, d) == c.i1 = d.i1 /\ c.i2 = d.i2

\* Comparator.from_string
ComparatorFromString(s) ==
    LET inputs == Split(Strip(s), ":")
    IN  IF Len(inputs) # 2 THEN Raise(ErrInvalidString)
        ELSE IF ~IsNumeric(inputs[1]) \/ ~IsNumeric(inputs[2]) THEN Raise(ErrInvalidString)
        ELSE Comparator(StrToInt(inputs[1]), StrToInt(inputs[2]))

\* overlaps true only for ranges that are neither nested nor disjoint
Overlaps_interleaved(c, d) ==
    \/ (c.i1 < d.i1 /\ d.i1 < c.i2 /\ c.i2 < d.i2)
    \/ (d.i1 < c.i1 /\ c.i1 < d.i2 /\ d.i2 < c.i2)

\* Comparator.overlaps
Overlaps(c, d) ==
    \/ (c.i1 < d.i1 /\ d.i1 < c.i2)
    \/ (c.i1 < d.i2 /\ d.i2 < c.i2)
    \/ (d.i1 < c.i1 /\ c.i1 < d.i2)
    \/ (d.i1 < c.i2 /\ c.i2 < d.i2)

\* Comparator.has_same_input
HasSameInput(c, d) ==
    \/ c.i1 = d.i1
    \/ c.i1 = d.i2
    \/ c.i2 = d.i1
    \/ c.i2 = d.i2

\* the comparators that can be constructed over positions 0 .. n-1
ComparatorsOver(n) ==
    {Comparator(pr[1], pr[2]).val :
        pr \in {qr \in (0..(n - 1)) \X (0..(n - 1)) : qr[1] # qr[2]}}

---------------------------------------------------------------------------
(* class ComparisonNetwork: the list operations *)

\* list.index by __eq__: the first k with cs[k] == c, 0 when there is none
FirstIndex(cs, c) ==
    LET S == {k \in 1..Len(cs) : ComparatorEq(cs[k], c)}
    IN  IF S = {} THEN 0 ELSE SetMin(S)

DropAt(cs, k) == SubSeq(cs, 1, k - 1) \o SubSeq(cs, k + 1, Len(cs))

\* list.remove deleting the last occurrence instead of the first
ListRemove_last(cs, c) ==
    LET S == {k \in 1..Len(cs) : ComparatorEq(cs[k], c)}
    IN  IF S = {} THEN cs ELSE DropAt(cs, SetMax(S))

\* list.remove(c) on a list that holds c: the first occurrence is deleted
ListRemove(cs, c) ==
    LET k == FirstIndex(cs, c)
    IN  IF k = 0 THEN cs ELSE DropAt(cs, k)

\* ComparisonNetwork.remove: the result of the call and the list afterwards
NetworkRemove(cs, c) ==
    IF FirstIndex(cs, c) = 0
    THEN [res |-> Raise(ErrNotInList), list |-> cs]
    ELSE [res |-> Return("None"), list |-> ListRemove(cs, c)]

\* ComparisonNetwork.append
NetworkAppend(cs, c) == [res |-> Return("None"), list |-> Append(cs, c)]

\* the loop of get_max_input taking the lower position of each comparator
RECURSIVE MaxInputLoop_i1(_, _, _)
MaxInputLoop_i1(cs, k, max_input) ==
    IF k > Len(cs) THEN max_input
    ELSE MaxInputLoop_i1(cs, k + 1, IF cs[k].i1 > max_input THEN cs[k].i1 ELSE max_input)

\* the loop of get_max_input (lines 362-366)
RECURSIVE MaxInputLoop(_, _, _)
MaxInputLoop(cs, k, max_input) ==
    IF k > Len(cs) THEN max_input
    ELSE MaxInputLoop(cs, k + 1, IF cs[k].i2 > max_input THEN cs[k].i2 ELSE max_input)

\* ComparisonNetwork.get_max_input
GetMaxInput(cs) ==
    IF Len(cs) = 0 THEN Raise(ErrEmpty) ELSE Return(MaxInputLoop(cs, 1, 0))

---------------------------------------------------------------------------
(* The two execution semantics *)

\* x >> 1 whatever k is
ShiftRight_byOne(x, k) == x \div 2

\* x >> k and x << k on non-negative ints
ShiftRight(x, k) == x \div Pow2(k)
ShiftLeft(x, k) == x * Pow2(k)

RECURSIVE BitAnd(_, _)
BitAnd(a, b) ==
    IF a = 0 \/ b = 0 THEN 0
    ELSE ((a % 2) * (b % 2)) + 2 * BitAnd(a \div 2, b \div 2)

RECURSIVE BitOr(_, _)
BitOr(a, b) ==
    IF a = 0 THEN b
    ELSE IF b = 0 THEN a
    ELSE (IF (a % 2) + (b % 2) > 0 THEN 1 ELSE 0) + 2 * BitOr(a \div 2, b \div 2)

RECURSIVE BitXor(_, _)
BitXor(a, b) ==
    IF a = 0 THEN b
    ELSE IF b = 0 THEN a
    ELSE (((a % 2) + (b % 2)) % 2) + 2 * BitXor(a \div 2, b \div 2)

\* one step of sort_binary_sequence exchanging whenever the bits differ
BinaryStep_differ(result, c) ==
    LET pos0 == BitAnd(ShiftRight(result, c.i1), 1)
        pos1 == BitAnd(ShiftRight(result, c.i2), 1)
    IN  IF pos0 # pos1
        THEN BitXor(result, BitOr(ShiftLeft(1, c.i1), ShiftLeft(1, c.i2)))
        ELSE result

\* one step of sort_binary_sequence exchanging when the bits are in order
BinaryStep_reversed(result, c) ==
    LET pos0 == BitAnd(ShiftRight(result, c.i1), 1)
        pos1 == BitAnd(ShiftRight(result, c.i2), 1)
    IN  IF pos0 < pos1
        THEN BitXor(result, BitOr(ShiftLeft(1, c.i1), ShiftLeft(1, c.i2)))
        ELSE result

\* one iteration of the loop of sort_binary_sequence (lines 335-338)
BinaryStep(result, c) ==
    LET pos0 == BitAnd(ShiftRight(result, c.i1), 1)
        pos1 == BitAnd(ShiftRight(result, c.i2), 1)
    IN  IF pos0 > pos1
        THEN BitXor(result, BitOr(ShiftLeft(1, c.i1), ShiftLeft(1, c.i2)))
        ELSE result

RECURSIVE BinaryLoop(_, _, _)
BinaryLoop(cs, k, result) ==
    IF k > Len(cs) THEN result
    ELSE BinaryLoop(cs, k + 1, BinaryStep(result, cs[k]))

\* ComparisonNetwork.sort_binary_sequence
SortBinarySequence(cs, sequence) == Return(BinaryLoop(cs, 1, sequence))

\* one step of sort_sequence exchanging when the items are in order
SequenceStep_less(result, c) ==
    IF result[c.i1 + 1].key < result[c.i2 + 1].key
    THEN [result EXCEPT ![c.i1 + 1] = result[c.i2 + 1], ![c.i2 + 1] = result[c.i1 + 1]]
    ELSE result

\* one step of sort_sequence exchanging on >= instead of >
SequenceStep_geq(result, c) ==
    IF result[c.i1 + 1].key >= result[c.i2 + 1].key
    THEN [result EXCEPT ![c.i1 + 1] = result[c.i2 + 1], ![c.i2 + 1] = result[c.i1 + 1]]
    ELSE result

\* one iteration of the loop of sort_sequence (lines 351-352); the items
\* are objects compared by their key
SequenceStep(result, c) ==
    IF result[c.i1 + 1].key > result[c.i2 + 1].key
    THEN [result EXCEPT ![c.i1 + 1] = result[c.i2 + 1], ![c.i2 + 1] = result[c.i1 + 1]]
    ELSE result

RECURSIVE SequenceLoop(_, _, _)
SequenceLoop(cs, k, result) ==
    IF k > Len(cs) THEN result
    ELSE SequenceLoop(cs, k + 1, SequenceStep(result, cs[k]))

\* the length test of sort_sequence letting longer sequences through
LengthMatches_atLeast(sequence, max_input) == Len(sequence) >= max_input + 1

\* the length test of sort_sequence (line 347)
LengthMatches(sequence, max_input) == Len(sequence) = max_input + 1

\* ComparisonNetwork.sort_sequence
SortSequence(cs, sequence) ==
    LET mx == GetMaxInput(cs)
    IN  IF mx.err # NoErr THEN mx
        ELSE IF ~LengthMatches(sequence, mx.val) THEN Raise(ErrLength)
        ELSE Return(SequenceLoop(cs, 1, sequence))

\* the caller's list after sort_sequence if result were the list itself and
\* not a copy: the exchanges of line 352 are made in it
SequenceAfterSort_alias(sequence, r) ==
    IF r.err = NoErr THEN r.val ELSE sequence

\* line 349: result is a new list, so the exchanges of line 352 leave the
\* caller's list as it was
SequenceAfterSort(sequence, r) == sequence

---------------------------------------------------------------------------
(* ComparisonNetwork.is_sorting_network: the search over three-valued states.
   A branch is the tuple (i, p, z, o) of the code; 2 stands for '#'.  pops
   counts the executions of stack.pop() (line 213) since the call started. *)

SearchIdle ==
    [pc |-> "idle", stack |-> <<>>, i |-> 0, p |-> <<>>, z |-> 0, o |-> 0,
     progress |-> 0, prev_progress |-> -1, show |-> FALSE, result |-> FALSE,
     pops |-> 0]

\* lines 186-203: the empty network returns False, otherwise the stack is
\* seeded with the all-unknown branch
SearchStart(cs, show_progress) ==
    IF Len(cs) = 0
    THEN [SearchIdle EXCEPT !.pc = "returned", !.show = show_progress, !.result = FALSE]
    ELSE LET n == GetMaxInput(cs).val + 1
         IN  [SearchIdle EXCEPT
                 !.pc = "while",
                 !.show = show_progress,
                 !.stack = <<[i |-> 0, p |-> [w \in 1..n |-> 2], z |-> 0, o |-> n - 1]>>]

\* the loop over range(z, o + 1)
FirstNonZero_inclusive(st, z, o) ==
    LET S == {j \in z..o : st[j + 1] # 0}
    IN  IF S = {} THEN -1 ELSE SetMin(S)

\* for j in range(z, o): the first j with st[j] != 0, -1 when the loop ends
FirstNonZero(st, z, o) ==
    LET S == {j \in z..(o - 1) : st[j + 1] # 0}
    IN  IF S = {} THEN -1 ELSE SetMin(S)

\* the loop over range(o, z - 1, -1)
LastNonOne_inclusive(st, o, z) ==
    LET S == {j \in z..o : st[j + 1] # 1}
    IN  IF S = {} THEN -1 ELSE SetMax(S)

\* for j in range(o, z, -1): the first j with st[j] != 1, -1 when the loop ends
LastNonOne(st, o, z) ==
    LET S == {j \in (z + 1)..o : st[j + 1] # 1}
    IN  IF S = {} THEN -1 ELSE SetMax(S)

\* line 213 reading the last branch and leaving it on the stack
SearchPop_peek(s) ==
    IF Len(s.stack) = 0
    THEN [s EXCEPT !.pc = "returned", !.result = TRUE]
    ELSE LET br == s.stack[Len(s.stack)]
         IN  [s EXCEPT
                 !.pc = "loop",
                 !.i = br.i, !.p = br.p, !.z = br.z, !.o = br.o,
                 !.progress = s.progress + ShiftRight(128, br.i),
                 !.pops = s.pops + 1]

\* line 206 and lines 213-214: leave the loop when the stack is empty,
\* otherwise pop the last branch
SearchPop(s) ==
    IF Len(s.stack) = 0
    THEN [s EXCEPT !.pc = "returned", !.result = TRUE]
    ELSE LET br == s.stack[Len(s.stack)]
         IN  [s EXCEPT
                 !.pc = "loop",
                 !.stack = SubSeq(s.stack, 1, Len(s.stack) - 1),
                 !.i = br.i, !.p = br.p, !.z = br.z, !.o = br.o,
                 !.progress = s.progress + ShiftRight(128, br.i),
                 !.pops = s.pops + 1]

\* the branch of lines 267-285 resolving the current branch to (1,1), not (#,1)
SearchBranch_oneOne(s, a, b) ==
    LET i == s.i + 1
        q == [s.p EXCEPT ![a + 1] = 0, ![b + 1] = 0]
        p == [s.p EXCEPT ![a + 1] = 1, ![b + 1] = 1]
        jq == FirstNonZero(q, s.z, s.o)
        pushed == [s EXCEPT
                      !.i = i, !.p = p,
                      !.stack = IF jq = -1 THEN s.stack
                                ELSE Append(s.stack, [i |-> i, p |-> q, z |-> jq, o |-> s.o]),
                      !.progress = IF jq = -1 THEN s.progress
                                   ELSE s.progress - ShiftRight(128, i)]
        jp == LastNonOne(p, s.o, s.z)
    IN  IF jp = -1 THEN [pushed EXCEPT !.pc = "report"]
        ELSE [pushed EXCEPT !.o = jp]

\* lines 267-285: (#,#) becomes (0,0) in a pushed branch and (#,1) here
SearchBranch(s, a, b) ==
    LET i == s.i + 1
        q == [s.p EXCEPT ![a + 1] = 0, ![b + 1] = 0]
        p == [s.p EXCEPT ![b + 1] = 1]
        jq == FirstNonZero(q, s.z, s.o)
        pushed == [s EXCEPT
                      !.i = i, !.p = p,
                      !.stack = IF jq = -1 THEN s.stack
                                ELSE Append(s.stack, [i |-> i, p |-> q, z |-> jq, o |-> s.o]),
                      !.progress = IF jq = -1 THEN s.progress
                                   ELSE s.progress - ShiftRight(128, i)]
        jp == LastNonOne(p, s.o, s.z)
    IN  IF jp = -1 THEN [pushed EXCEPT !.pc = "report"]
        ELSE [pushed EXCEPT !.o = jp]

\* lines 289-307: exchange, then move z and o inwards
SearchSwap(s, a, b) ==
    LET p == [s.p EXCEPT ![a + 1] = s.p[b + 1], ![b + 1] = s.p[a + 1]]
        swapped == [s EXCEPT !.i = s.i + 1, !.p = p]
        jz == FirstNonZero(p, s.z, s.o)
        jo == LastNonOne(p, s.o, jz)
    IN  IF jz = -1 THEN [swapped EXCEPT !.pc = "report"]
        ELSE IF jo = -1 THEN [swapped EXCEPT !.z = jz, !.pc = "report"]
        ELSE [swapped EXCEPT !.z = jz, !.o = jo]

\* lines 216-311: one pass of the loop over the comparators; the else of the
\* while returns False
SearchApply(s, cs) ==
    IF s.i >= Len(cs)
    THEN [s EXCEPT !.pc = "returned", !.result = FALSE]
    ELSE LET a == cs[s.i + 1].i1
             b == cs[s.i + 1].i2
         IN  IF s.p[a + 1] = 2 /\ s.p[b + 1] = 2 THEN SearchBranch(s, a, b)
             ELSE IF s.p[a + 1] # 0 /\ s.p[b + 1] # 1 THEN SearchSwap(s, a, b)
             ELSE [s EXCEPT !.i = s.i + 1]

\* lines 312-315: the progress report after a branch is finished
SearchReport(s) ==
    IF s.show /\ s.prev_progress # s.progress
    THEN [s EXCEPT !.pc = "while", !.prev_progress = s.progress]
    ELSE [s EXCEPT !.pc = "while"]

SearchStep(s, cs) ==
    IF s.pc = "while" THEN SearchPop(s)
    ELSE IF s.pc = "loop" THEN SearchApply(s, cs)
    ELSE IF s.pc = "report" THEN SearchReport(s)
    ELSE s

RECURSIVE SearchRun(_, _)
SearchRun(s, cs) ==
    IF s.pc = "returned" THEN s ELSE SearchRun(SearchStep(s, cs), cs)

\* ComparisonNetwork.is_sorting_network, run to its return
IsSortingNetwork(cs) == Return(SearchRun(SearchStart(cs, FALSE), cs).result)

---------------------------------------------------------------------------
(* The depth scheduler *)

\* overlap_count of lines 423-428, a dict keyed by comparator
OverlapCount(group) ==
    [c \in {group[k] : k \in 1..Len(group)} |->
        Cardinality({k \in 1..Len(group) : Overlaps(c, group[k])})]

\* the selection of lines 434-443 preferring the smallest input range
ComparatorToAdd_minRange(remaining, overlap_count) ==
    LET min_overlap_count == SetMin({overlap_count[c] : c \in DOMAIN overlap_count})
        IsMin(c) == overlap_count[c] = min_overlap_count
        min_overlap == SelectSeq(remaining, IsMin)
        min_input_range == SetMin({min_overlap[k].i2 - min_overlap[k].i1 : k \in 1..Len(min_overlap)})
        IsMinRange(c) == c.i2 - c.i1 = min_input_range
        limited == IF Len(min_overlap) > 1 THEN SelectSeq(min_overlap, IsMinRange) ELSE min_overlap
        lo == SetMin({limited[k].i1 : k \in 1..Len(limited)})
    IN  limited[SetMin({k \in 1..Len(limited) : limited[k].i1 = lo})]

\* the selection of lines 434-443 taking the first remaining comparator
ComparatorToAdd_first(remaining, overlap_count) == remaining[1]

\* lines 434-443: fewest overlaps, then largest input range, then smallest
\* i1 (min returns the first of equal keys)
ComparatorToAdd(remaining, overlap_count) ==
    LET min_overlap_count == SetMin({overlap_count[c] : c \in DOMAIN overlap_count})
        IsMin(c) == overlap_count[c] = min_overlap_count
        min_overlap == SelectSeq(remaining, IsMin)
        max_input_range == SetMax({min_overlap[k].i2 - min_overlap[k].i1 : k \in 1..Len(min_overlap)})
        IsMaxRange(c) == c.i2 - c.i1 = max_input_range
        limited == IF Len(min_overlap) > 1 THEN SelectSeq(min_overlap, IsMaxRange) ELSE min_overlap
        lo == SetMin({limited[k].i1 : k \in 1..Len(limited)})
    IN  limited[SetMin({k \in 1..Len(limited) : limited[k].i1 = lo})]

\* the loop of lines 432-446
RECURSIVE DepthGroupLoop(_, _, _)
DepthGroupLoop(remaining, overlap_count, result) ==
    IF Len(remaining) = 0 THEN result
    ELSE LET comparator_to_add == ComparatorToAdd(remaining, overlap_count)
         IN  DepthGroupLoop(ListRemove(remaining, comparator_to_add),
                            [c \in (DOMAIN overlap_count) \ {comparator_to_add} |-> overlap_count[c]],
                            Append(result, comparator_to_add))

\* ComparisonNetwork._optimize_comparator_depth_group, for a group of
\* comparators with non-conflicting inputs
OptimizeComparatorDepthGroup(group) ==
    DepthGroupLoop(group, OverlapCount(group), <<>>)

\* the test of lines 393-398 made against the last considered comparator only
CanAdd_last(c, considered) ==
    Len(considered) = 0 \/ ~HasSameInput(c, considered[Len(considered)])

\* the test of lines 393-398: c shares no input with a considered comparator
CanAdd(c, considered) ==
    \A k \in 1..Len(considered) : ~HasSameInput(c, considered[k])

\* line 402 run only for the comparators that were added
Consider_addedOnly(considered, c, can_add) ==
    IF can_add THEN Append(considered, c) ELSE considered

\* line 402: every comparator of the pass is considered, added or not
Consider(considered, c, can_add) == Append(considered, c)

\* the pass of lines 392-402 over a snapshot of remaining
RECURSIVE DepthPass(_, _, _, _, _)
DepthPass(snapshot, k, considered, current_depth_comparators, remaining) ==
    IF k > Len(snapshot)
    THEN [current |-> current_depth_comparators, remaining |-> remaining]
    ELSE LET c == snapshot[k]
         IN  IF CanAdd(c, considered)
             THEN DepthPass(snapshot, k + 1, Consider(considered, c, TRUE),
                            Append(current_depth_comparators, c), ListRemove(remaining, c))
             ELSE DepthPass(snapshot, k + 1, Consider(considered, c, FALSE),
                            current_depth_comparators, remaining)

\* the loop of lines 381-405
RECURSIVE DepthLoop(_, _)
DepthLoop(remaining, result) ==
    IF Len(remaining) = 0 THEN result
    ELSE LET pass == DepthPass(remaining, 1, <<>>, <<>>, remaining)
         IN  DepthLoop(pass.remaining,
                       result \o OptimizeComparatorDepthGroup(pass.current))

\* the list self.comparators after _get_optimized_comparators if remaining
\* were the list itself and not a copy: the loop removes every element
SourceAfterOptimize_alias(cs) == <<>>

\* line 378: remaining is a copy, so the removals of line 401 leave
\* self.comparators as it was
SourceAfterOptimize(cs) == cs

\* ComparisonNetwork._get_optimized_comparators
GetOptimizedComparators(cs) == Return(DepthLoop(cs, <<>>))

\* ','.join(map(str, group))
RECURSIVE JoinGroup(_)
JoinGroup(group) ==
    IF Len(group) = 0 THEN <<>>
    ELSE IF Len(group) = 1 THEN ComparatorStr(group[1])
    ELSE ComparatorStr(group[1]) \o <<",">> \o JoinGroup(Tail(group))

\* the test of lines 151-152 made against the last comparator of the line only
StartsNewLine_last(c, group) ==
    Len(group) > 0 /\ HasSameInput(c, group[Len(group)])

\* the test of lines 151-152: c shares an input with a comparator of the line
StartsNewLine(c, group) ==
    \E j \in 1..Len(group) : HasSameInput(c, group[j])

\* the loop of lines 150-157
RECURSIVE StrLoop(_, _, _, _)
StrLoop(optimized, k, group, result) ==
    IF k > Len(optimized) THEN result \o JoinGroup(group)
    ELSE LET c == optimized[k]
         IN  IF StartsNewLine(c, group)
             THEN StrLoop(optimized, k + 1, <<c>>, result \o JoinGroup(group) \o <<"\n">>)
             ELSE StrLoop(optimized, k + 1, Append(group, c), result)

\* ComparisonNetwork.__str__
NetworkStr(cs) == Return(StrLoop(GetOptimizedComparators(cs).val, 1, <<>>, <<>>))

---------------------------------------------------------------------------
(* The calls, as steps of the model.  <<op, arg, argAfter, ret, err>> records
   the last call: its name, the argument passed, the caller's argument object
   after the call, and the value returned or the exception. *)

\* the call op(a) ended with result r and left the caller's argument as b
CalledLeaving(name, a, b, r) ==
    /\ op' = name
    /\ arg' = a
    /\ argAfter' = b
    /\ ret' = r.val
    /\ err' = r.err

\* the call op(a) ended with result r; a is a value no call can change
Called(name, a, r) == CalledLeaving(name, a, a, r)

\* the lists of at most maxlen comparators over positions 0 .. n-1
NetworksOver(n, maxlen) ==
    UNION {[1..l -> ComparatorsOver(n)] : l \in 0..maxlen}

\* An item of a list is an object: key is the value that > compares, id
\* tells the object from the others (as 1, 1.0 and True are equal values
\* and different objects).  The items of an argument are different objects.
Item(v, j) == [key |-> v, id |-> j]

Keys(items) == [j \in 1..Len(items) |-> items[j].key]

\* lists of 0 .. n items with keys in 0 .. MaxVal
ItemSeqs(n) ==
    {[j \in 1..Len(ks) |-> Item(ks[j], j)] :
        ks \in UNION {[1..l -> 0..MaxVal] : l \in 0..n}}

AppendOver(n, maxlen) ==
    /\ Len(comparators) < maxlen
    /\ \E c \in ComparatorsOver(n) :
          LET r == NetworkAppend(comparators, c)
          IN  /\ comparators' = r.list
              /\ Called("append", c, r.res)
    /\ UNCHANGED search

RemoveOver(n) ==
    /\ \E c \in ComparatorsOver(n) :
          LET r == NetworkRemove(comparators, c)
          IN  /\ comparators' = r.list
              /\ Called("remove", c, r.res)
    /\ UNCHANGED search

GetMaxInputCall ==
    /\ Called("get_max_input", "None", GetMaxInput(comparators))
    /\ UNCHANGED <<comparators, search>>

IsSortingNetworkCall ==
    /\ Called("is_sorting_network", "None", IsSortingNetwork(comparators))
    /\ UNCHANGED <<comparators, search>>

SortBinarySequenceCall(n) ==
    /\ \E x \in 0..(Pow2(n) - 1) :
          Called("sort_binary_sequence", x, SortBinarySequence(comparators, x))
    /\ UNCHANGED <<comparators, search>>

SortSequenceCall(n) ==
    /\ \E items \in ItemSeqs(n) :
          LET r == SortSequence(comparators, items)
          IN  CalledLeaving("sort_sequence", items, SequenceAfterSort(items, r), r)
    /\ UNCHANGED <<comparators, search>>

GetOptimizedComparatorsCall ==
    /\ Called("_get_optimized_comparators", "None", GetOptimizedComparators(comparators))
    /\ comparators' = SourceAfterOptimize(comparators)
    /\ UNCHANGED search

StrCall ==
    /\ Called("__str__", "None", NetworkStr(comparators))
    /\ comparators' = SourceAfterOptimize(comparators)
    /\ UNCHANGED search

\* the calls that are meant to read the network only
Queries ==
    {"is_sorting_network", "sort_binary_sequence", "sort_sequence",
     "_get_optimized_comparators", "__str__"}

---------------------------------------------------------------------------
(* Spec: a network object built and changed by append and remove, with the
   calls in any order *)

Init ==
    /\ comparators = <<>>
    /\ op = "__init__"
    /\ arg = "None"
    /\ argAfter = "None"
    /\ ret = "None"
    /\ err = NoErr
    /\ search = SearchIdle

CallAppend == AppendOver(NumWires, MaxLen)

CallRemove == RemoveOver(NumWires)

CallGetMaxInput == GetMaxInputCall

CallIsSortingNetwork == IsSortingNetworkCall

CallSortBinarySequence == SortBinarySequenceCall(NumWires)

CallGetOptimizedComparators == GetOptimizedComparatorsCall

CallStr == StrCall

Next ==
    \/ CallAppend
    \/ CallRemove
    \/ CallGetMaxInput
    \/ CallIsSortingNetwork
    \/ CallSortBinarySequence
    \/ CallGetOptimizedComparators
    \/ CallStr

Spec == Init /\ [][Next]_vars

---------------------------------------------------------------------------
(* SpecSort: the queries as functions of the network and their argument.
   The network is any list from_string can build; one query is applied to
   it.  A query reads the list and its argument and never the record of the
   call before it, so a second query on the same list has the outcome it
   would have as the first. *)

InitSort ==
    /\ comparators \in NetworksOver(SortWires, SortLen)
    /\ op = "from_string"
    /\ arg = "None"
    /\ argAfter = "None"
    /\ ret = "None"
    /\ err = NoErr
    /\ search = SearchIdle

Built == op = "from_string"

SortSortSequence == Built /\ SortSequenceCall(SortWires)

SortSortBinarySequence == Built /\ SortBinarySequenceCall(SortWires)

SortIsSortingNetwork == Built /\ IsSortingNetworkCall

SortGetOptimizedComparators == Built /\ GetOptimizedComparatorsCall

SortStr == Built /\ StrCall

NextSort ==
    \/ SortSortSequence
    \/ SortSortBinarySequence
    \/ SortIsSortingNetwork
    \/ SortGetOptimizedComparators
    \/ SortStr

SpecSort == InitSort /\ [][NextSort]_vars

---------------------------------------------------------------------------
(* SpecSched: the scheduler on wider networks *)

InitSched ==
    /\ comparators \in NetworksOver(SchedWires, SchedLen)
    /\ op = "from_string"
    /\ arg = "None"
    /\ argAfter = "None"
    /\ ret = "None"
    /\ err = NoErr
    /\ search = SearchIdle

SchedGetOptimizedComparators == Built /\ GetOptimizedComparatorsCall

SchedStr == Built /\ StrCall

NextSched ==
    \/ SchedGetOptimizedComparators
    \/ SchedStr

SpecSched == InitSched /\ [][NextSched]_vars

---------------------------------------------------------------------------
(* SpecVerify: is_sorting_network step by step, one step for each pass of
   its two loops *)

\* the network with the comparators pairs[1][1]:pairs[1][2], ...
Network(pairs) == [k \in 1..Len(pairs) |-> Comparator(pairs[k][1], pairs[k][2]).val]

\* sorting networks over 4, 5 and 6 wires whose search pops 4, 7 and 12
\* branches
DeepNetworks ==
    {
      Network(<<<<0, 1>>, <<2, 3>>, <<1, 3>>, <<0, 2>>, <<1, 2>>>>),
      Network(<<<<0, 1>>, <<2, 4>>, <<0, 3>>, <<3, 4>>, <<1, 4>>, <<1, 3>>,
                <<2, 3>>, <<0, 2>>, <<1, 2>>>>),
      Network(<<<<0, 2>>, <<1, 3>>, <<4, 5>>, <<0, 2>>, <<0, 1>>, <<2, 3>>,
                <<2, 4>>, <<3, 5>>, <<0, 2>>, <<1, 2>>, <<2, 4>>, <<1, 5>>,
                <<0, 3>>, <<1, 4>>, <<0, 4>>, <<3, 4>>, <<2, 5>>, <<1, 3>>,
                <<2, 3>>>>)
    }

InitVerify ==
    /\ comparators \in NetworksOver(VerWires, VerLen) \cup DeepNetworks
    /\ op = "from_string"
    /\ arg = "None"
    /\ argAfter = "None"
    /\ ret = "None"
    /\ err = NoErr
    /\ search = SearchIdle

\* the search moves to s; the call ends when s has returned
SearchMoves(s) ==
    /\ search' = s
    /\ IF s.pc = "returned"
       THEN Called("is_sorting_network", s.show, Return(s.result))
       ELSE UNCHANGED <<op, arg, argAfter, ret, err>>
    /\ UNCHANGED comparators

VerifyStart ==
    /\ search.pc = "idle"
    /\ \E show_progress \in BOOLEAN : SearchMoves(SearchStart(comparators, show_progress))

VerifyPop ==
    /\ search.pc = "while"
    /\ SearchMoves(SearchPop(search))

VerifyApply ==
    /\ search.pc = "loop"
    /\ SearchMoves(SearchApply(search, comparators))

VerifyReport ==
    /\ search.pc = "report"
    /\ SearchMoves(SearchReport(search))

NextVerify ==
    \/ VerifyStart
    \/ VerifyPop
    \/ VerifyApply
    \/ VerifyReport

SpecVerify == InitVerify /\ [][NextVerify]_vars

---------------------------------------------------------------------------
(* SpecReorder: the scheduler on the networks whose steps are then applied
   in its order *)

InitReorder ==
    /\ comparators \in NetworksOver(ReorderWires, ReorderLen)
    /\ op = "from_string"
    /\ arg = "None"
    /\ argAfter = "None"
    /\ ret = "None"
    /\ err = NoErr
    /\ search = SearchIdle

ReorderGetOptimizedComparators == Built /\ GetOptimizedComparatorsCall

NextReorder == ReorderGetOptimizedComparators

SpecReorder == InitReorder /\ [][NextReorder]_vars

---------------------------------------------------------------------------
(* SpecGroup: _optimize_comparator_depth_group on the groups it is written
   for, lists of comparators with non-conflicting inputs *)

\* the lists of comparators over n wires no two of which share an input
DisjointGroups(n) ==
    {g \in UNION {[1..l -> ComparatorsOver(n)] : l \in 0..(n \div 2)} :
        \A j \in 1..Len(g), k \in 1..Len(g) : j # k => ~HasSameInput(g[j], g[k])}

InitGroup ==
    /\ comparators = <<>>
    /\ op = "none"
    /\ arg = "None"
    /\ argAfter = "None"
    /\ ret = "None"
    /\ err = NoErr
    /\ search = SearchIdle

OptimizeComparatorDepthGroupCall ==
    /\ op = "none"
    /\ \E group \in DisjointGroups(GroupWires) :
          Called("_optimize_comparator_depth_group", group,
                 Return(OptimizeComparatorDepthGroup(group)))
    /\ UNCHANGED <<comparators, search>>

NextGroup == OptimizeComparatorDepthGroupCall

SpecGroup == InitGroup /\ [][NextGroup]_vars

---------------------------------------------------------------------------
(* SpecComparator: the constructor and from_string *)

\* the characters of the strings given to from_string
Alphabet == {DigitChar[k + 1] : k \in 0..MaxPos} \cup {":", " ", "x"}

Strings == UNION {[1..l -> Alphabet] : l \in 0..MaxStrLen}

InitComparator ==
    /\ comparators = <<>>
    /\ op = "none"
    /\ arg = "None"
    /\ argAfter = "None"
    /\ ret = "None"
    /\ err = NoErr
    /\ search = SearchIdle

\* both are static: they read no state
NewComparator ==
    /\ op = "none"
    /\ \E a \in 0..MaxPos, b \in 0..MaxPos :
          Called("Comparator", <<a, b>>, Comparator(a, b))
    /\ UNCHANGED <<comparators, search>>

FromString ==
    /\ op = "none"
    /\ \E s \in Strings :
          Called("from_string", s, ComparatorFromString(s))
    /\ UNCHANGED <<comparators, search>>

NextComparator ==
    \/ NewComparator
    \/ FromString

SpecComparator == InitComparator /\ [][NextComparator]_vars

---------------------------------------------------------------------------
(* Properties *)

Range(sq) == {sq[k] : k \in 1..Len(sq)}

\* wireCount of a non-empty list: the highest position in use, plus one
WireCount(cs) == SetMax({cs[k].i2 : k \in 1..Len(cs)}) + 1

Bit(x, w) == (x \div Pow2(w)) % 2

PopCount(x, n) == Cardinality({w \in 0..(n - 1) : Bit(x, w) = 1})

\* a binary sequence over n wires is sorted when its 1 bits are on the
\* highest-numbered wires
SortedBinary(x, n) ==
    /\ x < Pow2(n)
    /\ \A v \in 0..(n - 1), w \in 0..(n - 1) : (v < w /\ Bit(x, v) = 1) => Bit(x, w) = 1

NonDecreasing(sq) == \A k \in 1..(Len(sq) - 1) : sq[k] <= sq[k + 1]

Occurrences(sq, v) == Cardinality({k \in 1..Len(sq) : sq[k] = v})

IsPermutation(sq, tq) ==
    /\ Len(sq) = Len(tq)
    /\ \A v \in Range(sq) \cup Range(tq) : Occurrences(sq, v) = Occurrences(tq, v)

\* the network sorts each of the 2^n binary inputs
SortsAllBinary(cs) ==
    /\ Len(cs) > 0
    /\ \A x \in 0..(Pow2(WireCount(cs)) - 1) :
          SortedBinary(SortBinarySequence(cs, x).val, WireCount(cs))

\* C1: is_sorting_network returns False for the empty network, and for a
\* non-empty network it returns True exactly when sort_binary_sequence sorts
\* every one of the 2^n binary inputs, n = get_max_input() + 1.
C1_VerifierExact ==
    search.pc = "returned" =>
        /\ op = "is_sorting_network"
        /\ err = NoErr
        /\ ret = search.result
        /\ ret <=> SortsAllBinary(comparators)

\* a search of a three-wire network has returned True
C1_Witness ==
    /\ search.pc = "returned"
    /\ search.result
    /\ Len(comparators) = 3
    /\ WireCount(comparators) = 3

\* C2: when is_sorting_network returns True for the network, sort_sequence
\* returns, for every sequence of wireCount items of a totally ordered
\* domain, a non-decreasing permutation of the items.
C2_SortsEverySequence ==
    (op = "sort_sequence" /\ err = NoErr /\ IsSortingNetwork(comparators).val) =>
        /\ NonDecreasing(Keys(ret))
        /\ IsPermutation(ret, arg)

\* a verified three-wire network has sorted three distinct items given in
\* decreasing order
C2_Witness ==
    /\ op = "sort_sequence"
    /\ err = NoErr
    /\ IsSortingNetwork(comparators).val
    /\ Keys(arg) = <<2, 1, 0>>
    /\ Keys(ret) = <<0, 1, 2>>

\* the list with the comparators at k and k + 1 exchanged
ExchangeAdjacent(cs, k) == [cs EXCEPT ![k] = cs[k + 1], ![k + 1] = cs[k]]

SharesWire(c, d) == {c.i1, c.i2} \cap {d.i1, d.i2} # {}

\* C3: exchanging two adjacent comparators that share no wire changes
\* neither the sequence _get_optimized_comparators returns nor the string
\* __str__ returns; the lists obtained by repeating such exchanges are again
\* lists of the specification, so the results agree along every chain of
\* exchanges.
C3_SchedulerDeterministic ==
    /\ op = "_get_optimized_comparators" =>
          \A k \in 1..(Len(comparators) - 1) :
              ~SharesWire(comparators[k], comparators[k + 1]) =>
                  GetOptimizedComparators(ExchangeAdjacent(comparators, k)).val = ret
    /\ op = "__str__" =>
          \A k \in 1..(Len(comparators) - 1) :
              ~SharesWire(comparators[k], comparators[k + 1]) =>
                  NetworkStr(ExchangeAdjacent(comparators, k)).val = ret

\* the scheduler has ordered a list of four comparators in which two
\* adjacent ones share no wire, and its order is neither that of the list
\* nor that of the exchanged list
C3_Witness ==
    /\ op = "_get_optimized_comparators"
    /\ Len(comparators) = 4
    /\ \E k \in 1..3 :
          /\ ~SharesWire(comparators[k], comparators[k + 1])
          /\ ret # comparators
          /\ ret # ExchangeAdjacent(comparators, k)

\* the position in tq of the occurrence of sq[k] that has as many equal
\* comparators before it in tq as sq[k] has before it in sq
PlaceOf(sq, k, tq) ==
    LET before == Cardinality({j \in 1..(k - 1) : sq[j] = sq[k]})
    IN  CHOOSE t \in 1..Len(tq) :
            /\ tq[t] = sq[k]
            /\ Cardinality({j \in 1..(t - 1) : tq[j] = sq[k]}) = before

\* C4: the sequence _get_optimized_comparators returns holds the same
\* comparators as the list with the same multiplicities, and two occurrences
\* that share a wire are in it in the order they have in the list.
C4_Relinearization ==
    op = "_get_optimized_comparators" =>
        /\ IsPermutation(ret, comparators)
        /\ \A j \in 1..Len(comparators), k \in 1..Len(comparators) :
              (j < k /\ SharesWire(comparators[j], comparators[k])) =>
                  PlaceOf(comparators, j, ret) < PlaceOf(comparators, k, ret)

\* the scheduler has reordered a list of four comparators that holds a
\* comparator twice
C4_Witness ==
    /\ op = "_get_optimized_comparators"
    /\ Len(comparators) = 4
    /\ ret # comparators
    /\ \E j \in 1..4, k \in 1..4 : j < k /\ comparators[j] = comparators[k]

\* C5: is_sorting_network, sort_binary_sequence, sort_sequence,
\* _get_optimized_comparators and __str__ leave the comparator list as it
\* was, whether they return or raise.
C5_QueriesKeepList ==
    [][op' \in Queries => comparators' = comparators]_vars

\* the scheduler has returned the three comparators of a list that still
\* holds the three
C5_Witness ==
    /\ op = "_get_optimized_comparators"
    /\ Len(comparators) = 3
    /\ IsPermutation(ret, comparators)

\* C6: on a non-empty network sort_sequence raises the length-mismatch error,
\* and returns nothing, when the number of items is not wireCount, and
\* returns wireCount items without error when it is.
C6_LengthMismatch ==
    (op = "sort_sequence" /\ Len(comparators) > 0) =>
        IF Len(arg) # WireCount(comparators)
        THEN err = ErrLength /\ ret = <<>>
        ELSE err = NoErr /\ Len(ret) = WireCount(comparators)

\* sort_sequence has raised on a sequence longer than wireCount
C6_Witness ==
    /\ op = "sort_sequence"
    /\ Len(comparators) > 0
    /\ Len(arg) > WireCount(comparators)
    /\ err = ErrLength

\* C7: get_max_input raises the empty-network error on the empty list and
\* otherwise returns the largest i2 of the list, after any appends and
\* removes.
C7_GetMaxInput ==
    op = "get_max_input" =>
        IF Len(comparators) = 0
        THEN err = ErrEmpty
        ELSE err = NoErr /\ ret = WireCount(comparators) - 1

\* get_max_input has returned the i2 of the first of three comparators,
\* which is above the i2 of the last
C7_Witness ==
    /\ op = "get_max_input"
    /\ err = NoErr
    /\ Len(comparators) = 3
    /\ ret = comparators[1].i2
    /\ ret > comparators[3].i2

\* C8: remove(c) raises the not-found error and keeps the list when no
\* comparator of the list equals c; otherwise it deletes the first
\* comparator equal to c and keeps the others in their order; append(c)
\* puts c at the end.
C8_RemoveAndAppend ==
    [][/\ op' = "remove" =>
            IF \A k \in 1..Len(comparators) : comparators[k] # arg'
            THEN err' = ErrNotInList /\ comparators' = comparators
            ELSE /\ err' = NoErr
                 /\ \E k \in 1..Len(comparators) :
                       /\ comparators[k] = arg'
                       /\ \A j \in 1..(k - 1) : comparators[j] # arg'
                       /\ comparators' =
                            [j \in 1..(Len(comparators) - 1) |->
                                IF j < k THEN comparators[j] ELSE comparators[j + 1]]
       /\ op' = "append" =>
            /\ err' = NoErr
            /\ Len(comparators') = Len(comparators) + 1
            /\ comparators'[Len(comparators')] = arg'
            /\ \A j \in 1..Len(comparators) : comparators'[j] = comparators[j]
      ]_vars

\* remove has deleted a comparator that the list still holds after it
C8_Witness ==
    /\ op = "remove"
    /\ err = NoErr
    /\ Len(comparators) = 2
    /\ comparators[2] = arg
    /\ comparators[1] # arg

\* C9: the constructor raises exactly when the two positions are equal;
\* otherwise it stores the smaller position as i1 and the larger as i2, so
\* that Comparator(a, b) and Comparator(b, a) are equal, have the same hash
\* and the same string "lo:hi"; from_string gives such a comparator, and
\* "2:0" parsed and turned into a string is "0:2".
C9_ComparatorNormalized ==
    /\ op = "Comparator" =>
          LET a == arg[1]
              b == arg[2]
              lo == IF a < b THEN a ELSE b
              hi == IF a < b THEN b ELSE a
          IN  /\ (err # NoErr) <=> (a = b)
              /\ a = b => err = ErrSameInputs
              /\ a # b =>
                    /\ ret.i1 = lo
                    /\ ret.i2 = hi
                    /\ ComparatorEq(ret, Comparator(b, a).val)
                    /\ ComparatorHash(ret) = ComparatorHash(Comparator(b, a).val)
                    /\ ComparatorStr(ret) = IntToStr(lo) \o <<":">> \o IntToStr(hi)
                    /\ ComparatorStr(Comparator(b, a).val) = ComparatorStr(ret)
    /\ (op = "from_string" /\ err = NoErr) => ret.i1 < ret.i2
    /\ (op = "from_string" /\ arg = <<"2", ":", "0">>) =>
          /\ err = NoErr
          /\ ComparatorStr(ret) = <<"0", ":", "2">>

\* "2:0" has been parsed
C9_Witness ==
    /\ op = "from_string"
    /\ arg = <<"2", ":", "0">>
    /\ err = NoErr
    /\ ret = [i1 |-> 0, i2 |-> 2]

\* C10: sort_binary_sequence keeps the number of 1 bits, never lowers the
\* value (a 1 only moves to a higher wire), and returns its input when the
\* 1 bits of the input are on the highest of the wireCount wires.
C10_BinarySortedFixed ==
    op = "sort_binary_sequence" =>
        /\ err = NoErr
        /\ PopCount(ret, SortWires + 1) = PopCount(arg, SortWires + 1)
        /\ ret >= arg
        /\ (Len(comparators) > 0 /\ SortedBinary(arg, WireCount(comparators))) => ret = arg

\* a list of three comparators over three wires has returned the sorted
\* input 110 as it was
C10_Witness ==
    /\ op = "sort_binary_sequence"
    /\ Len(comparators) = 3
    /\ WireCount(comparators) = 3
    /\ arg = 6
    /\ ret = 6

\* the list of sort_sequence after the first k comparators
AfterSteps(cs, k, items) == SequenceLoop(SubSeq(cs, 1, k), 1, items)

\* C11: sort_sequence returns a new list and leaves the caller's list as it
\* was; a step changes the list only when the item at lo is strictly greater
\* than the item at hi, and then exchanges these two; a list of items that
\* are all equal is returned item for item as it was.
C11_CopyAndStrictExchange ==
    (op = "sort_sequence" /\ err = NoErr) =>
        /\ argAfter = arg
        /\ ret = AfterSteps(comparators, Len(comparators), arg)
        /\ \A k \in 1..Len(comparators) :
              LET before == AfterSteps(comparators, k - 1, arg)
                  after == AfterSteps(comparators, k, arg)
                  lo == comparators[k].i1 + 1
                  hi == comparators[k].i2 + 1
              IN  /\ before[lo].key <= before[hi].key => after = before
                  /\ before[lo].key > before[hi].key =>
                        after = [before EXCEPT ![lo] = before[hi], ![hi] = before[lo]]
        /\ (\A j \in 1..Len(arg) : arg[j].key = arg[1].key) => ret = arg

\* three comparators over three wires have sorted a list that has two equal
\* items and an exchange to make
C11_Witness ==
    /\ op = "sort_sequence"
    /\ err = NoErr
    /\ Len(comparators) = 3
    /\ Keys(arg) = <<1, 1, 0>>
    /\ Keys(ret) = <<0, 1, 1>>
    /\ argAfter = arg

\* the depth levels of the scheduler, each in the order of its group: the
\* groups that DepthLoop appends, one after the other
RECURSIVE DepthLevels(_)
DepthLevels(remaining) ==
    IF Len(remaining) = 0 THEN <<>>
    ELSE LET pass == DepthPass(remaining, 1, <<>>, <<>>, remaining)
         IN  <<OptimizeComparatorDepthGroup(pass.current)>> \o DepthLevels(pass.remaining)

\* the comparators written on a line of the display
LineComparators(line) ==
    LET parts == Split(line, ",")
    IN  [j \in 1..Len(parts) |-> ComparatorFromString(parts[j]).val]

\* C12: the display has one line for each depth level of the scheduler, in
\* depth order, and the line holds the comparators of the level in the order
\* of the optimized group; the empty network is displayed as the empty string.
C12_DisplayByDepthLevel ==
    op = "__str__" =>
        /\ err = NoErr
        /\ comparators = <<>> => ret = <<>>
        /\ comparators # <<>> =>
              LET levels == DepthLevels(comparators)
                  lines == Split(ret, "\n")
              IN  /\ Len(lines) = Len(levels)
                  /\ \A k \in 1..Len(levels) : LineComparators(lines[k]) = levels[k]

\* a network whose second level starts with a comparator that shares no wire
\* with the last comparator of the first line has been displayed on two lines
C12_Witness ==
    /\ op = "__str__"
    /\ comparators = <<[i1 |-> 0, i2 |-> 1], [i1 |-> 2, i2 |-> 3], [i1 |-> 0, i2 |-> 1]>>
    /\ ret = <<"0", ":", "1", ",", "2", ":", "3", "\n", "0", ":", "1">>

\* the places k of cs whose comparator occurs earlier in cs
LaterOccurrences(cs) ==
    {k \in 2..Len(cs) : \E j \in 1..(k - 1) : cs[j] = cs[k]}

\* cs[k] repeats an earlier comparator, and no comparator between the nearest
\* earlier occurrence and k shares a wire with it
RepeatsUntouched(cs, k) ==
    \E j \in 1..(k - 1) :
        /\ cs[j] = cs[k]
        /\ \A m \in (j + 1)..(k - 1) : ~SharesWire(cs[m], cs[k])

\* the last call gives the same answer on the list without its k-th comparator
SameAnswerWithout(k) ==
    LET without == DropAt(comparators, k)
    IN  /\ op = "sort_binary_sequence" => SortBinarySequence(without, arg).val = ret
        /\ (op = "sort_sequence" /\ err = NoErr) =>
              /\ SortSequence(without, arg).err = NoErr
              /\ SortSequence(without, arg).val = ret
        /\ op = "is_sorting_network" => IsSortingNetwork(without).val = ret

Net_01_12 == <<[i1 |-> 0, i2 |-> 1], [i1 |-> 1, i2 |-> 2]>>

\* the inputs that the three characters 100 can stand for: the binary
\* numeral 100 (wire 2 set), and wire 0 set when read in wire order
Pattern100 == {4, 1}

\* C14 as stated: "0:1,1:2" is not a sorting network, and sort_binary_sequence
\* applied to the pattern 100 (in one of its readings) returns an output
\* that is not sorted.
C14_Pattern100Unsorted ==
    comparators = Net_01_12 =>
        /\ op = "is_sorting_network" => ret = FALSE
        /\ (op = "sort_binary_sequence" /\ arg \in Pattern100) =>
              \E x \in Pattern100 : ~SortedBinary(SortBinarySequence(comparators, x).val, 3)

\* C14, amended: "0:1,1:2" is not a sorting network, and the input with
\* wires 0 and 1 set and wire 2 clear (the integer 3) is the one binary input
\* over its three wires that it does not sort: sort_binary_sequence returns 5
\* for it, wires 0 and 2 set.
C14_Pattern011Unsorted ==
    comparators = Net_01_12 =>
        /\ op = "is_sorting_network" => ret = FALSE
        /\ (op = "sort_binary_sequence" /\ arg < Pow2(WireCount(comparators))) =>
              /\ ~SortedBinary(ret, 3) <=> arg = 3
              /\ arg = 3 => ret = 5

\* sort_binary_sequence of "0:1,1:2" has returned 5 for 3
C14_Witness ==
    /\ comparators = Net_01_12
    /\ op = "sort_binary_sequence"
    /\ arg = 3
    /\ ret = 5

\* the ranges of c and d are neither nested nor disjoint: each holds exactly
\* one end of the other strictly inside
ProperlyInterleaved(c, d) ==
    \/ (c.i1 < d.i1 /\ d.i1 < c.i2 /\ c.i2 < d.i2)
    \/ (d.i1 < c.i1 /\ c.i1 < d.i2 /\ d.i2 < c.i2)

\* the ranges of c and d are different and have a stretch in common: the
\* higher of the two lo is below the lower of the two hi
RangesIntersect(c, d) ==
    /\ c # d
    /\ SetMax({c.i1, d.i1}) < SetMin({c.i2, d.i2})

\* C15 as stated: overlaps(c, d) is true exactly when the ranges of c and d
\* are neither nested nor disjoint, and the overlap count of a comparator in
\* a depth level is the number of other comparators of the level whose range
\* properly interleaves with its own.
C15_OverlapsInterleavedOnly ==
    op = "_optimize_comparator_depth_group" =>
        /\ \A c \in Range(arg), d \in ComparatorsOver(GroupWires) :
              Overlaps(c, d) <=> ProperlyInterleaved(c, d)
        /\ \A c \in Range(arg) :
              OverlapCount(arg)[c] =
                  Cardinality({d \in Range(arg) \ {c} : ProperlyInterleaved(c, d)})

\* C15, amended: overlaps(c, d) is true exactly when the ranges of c and d
\* are different and intersect in more than an end point, nested ranges
\* included; the overlap count of a comparator in a depth level is the number
\* of other comparators of the level whose range is nested with or
\* interleaves its own.
C15_OverlapsNestedToo ==
    op = "_optimize_comparator_depth_group" =>
        /\ \A c \in Range(arg), d \in ComparatorsOver(GroupWires) :
              Overlaps(c, d) <=> RangesIntersect(c, d)
        /\ \A c \in Range(arg) :
              OverlapCount(arg)[c] =
                  Cardinality({d \in Range(arg) \ {c} : RangesIntersect(c, d)})

\* a depth level of two nested comparators has been ordered; each of the two
\* has overlap count 1
C15_Witness ==
    /\ op = "_optimize_comparator_depth_group"
    /\ arg = <<[i1 |-> 1, i2 |-> 2], [i1 |-> 0, i2 |-> 3]>>
    /\ OverlapCount(arg)[arg[1]] = 1
    /\ OverlapCount(arg)[arg[2]] = 1
    /\ ret = <<[i1 |-> 0, i2 |-> 3], [i1 |-> 1, i2 |-> 2]>>

\* the branch (st, z, o) is alive: zeros below z, ones above o, z below o,
\* and neither st[z] nor st[o] is settled
Alive(st, z, o) ==
    /\ \A w \in 0..(z - 1) : st[w + 1] = 0
    /\ \A w \in (o + 1)..(Len(st) - 1) : st[w + 1] = 1
    /\ z < o
    /\ st[z + 1] # 0
    /\ st[o + 1] # 1

\* st has the form 0..0 x 1..1 with one wire x of any value
SettledForm(st) ==
    \E x \in 0..(Len(st) - 1) :
        /\ \A w \in 0..(x - 1) : st[w + 1] = 0
        /\ \A w \in (x + 1)..(Len(st) - 1) : st[w + 1] = 1

\* the sequences of 0 and 1 that agree with st on its settled wires
Completions(st) ==
    {f \in [1..Len(st) -> {0, 1}] : \A w \in 1..Len(st) : st[w] # 2 => f[w] = st[w]}

Settled(st) ==
    /\ SettledForm(st)
    /\ \A f \in Completions(st) : NonDecreasing(f)

\* the (0,0) child that the next step of the search makes and does not push
UnpushedChild(s, cs) ==
    IF s.pc = "loop" /\ s.i < Len(cs)
    THEN LET a == cs[s.i + 1].i1
             b == cs[s.i + 1].i2
             q == [s.p EXCEPT ![a + 1] = 0, ![b + 1] = 0]
         IN  IF s.p[a + 1] = 2 /\ s.p[b + 1] = 2
                /\ Len(SearchApply(s, cs).stack) = Len(s.stack)
             THEN {q} ELSE {}
    ELSE {}

\* C16: in every state of the search the current branch and every branch on
\* the stack have 0 on every wire below z and 1 on every wire above o, with
\* z < o, state[z] # 0 and state[o] # 1 while they are alive; a branch that
\* is abandoned and a (0,0) child that is not pushed have the form
\* 0..0 x 1..1, so every 0/1 completion of them is non-decreasing.
C16_PruningSound ==
    /\ \A k \in 1..Len(search.stack) :
          Alive(search.stack[k].p, search.stack[k].z, search.stack[k].o)
    /\ search.pc = "loop" => Alive(search.p, search.z, search.o)
    /\ search.pc = "report" =>
          /\ \A w \in 0..(search.z - 1) : search.p[w + 1] = 0
          /\ \A w \in (search.o + 1)..(Len(search.p) - 1) : search.p[w + 1] = 1
          /\ Settled(search.p)
    /\ \A q \in UnpushedChild(search, comparators) : Settled(q)

\* a branch with an unsettled wire has been abandoned while another branch
\* waits on the stack
C16_Witness ==
    /\ search.pc = "report"
    /\ Len(search.stack) > 0
    /\ \E w \in 1..Len(search.p) : search.p[w] = 2
    /\ Len(search.p) = 4

\* T(1) = 1, T(2) = 2, T(k) = T(k-1) + T(k-2)
RECURSIVE BranchBound(_)
BranchBound(k) ==
    IF k <= 1 THEN 1
    ELSE IF k = 2 THEN 2
    ELSE BranchBound(k - 1) + BranchBound(k - 2)

\* C17: during one call of is_sorting_network on a network of n wires the
\* number of branches popped from the stack is at most T(n), for every
\* number and order of the comparators.
C17_BranchCountBounded ==
    comparators # <<>> => search.pops <= BranchBound(WireCount(comparators))

\* a search over six wires has returned True after popping 12 of the
\* T(6) = 13 branches
C17_Witness ==
    /\ search.pc = "returned"
    /\ search.result
    /\ Len(comparators) > 0
    /\ WireCount(comparators) = 6
    /\ BranchBound(6) = 13
    /\ search.pops = 12

\* 128 >> i
Share(i) == 128 \div Pow2(i)

\* the step pops a branch, at cursor search'.i
PopsBranch == search.pc = "while" /\ search'.pc = "loop"

\* the step of the comparator loop pushes a pending branch
PushesBranch == search.pc = "loop" /\ Len(search'.stack) > Len(search.stack)

\* C18: popping a branch at cursor i adds 128 >> i to progress and pushing a
\* branch at cursor i subtracts 128 >> i; the value at a report point is not
\* below the value at the report point before it and not above 128; it is
\* 128 when the search returns True.
C18_ProgressMonotonic ==
    /\ [][PopsBranch => search'.progress = search.progress + Share(search'.i)]_vars
    /\ [][PushesBranch =>
            /\ Len(search'.stack) = Len(search.stack) + 1
            /\ search'.stack[Len(search'.stack)].i = search'.i
            /\ search'.progress = search.progress - Share(search'.i)]_vars
    /\ [](search.pc = "report" =>
            /\ search.progress <= 128
            /\ search.show => search.prev_progress <= search.progress)
    /\ []((search.pc = "returned" /\ search.result) => search.progress = 128)

\* a later report point of a search that shows its progress, with a branch
\* still waiting on the stack
C18_Witness ==
    /\ search.pc = "report"
    /\ search.show
    /\ Len(search.stack) > 0
    /\ search.prev_progress > 0
    /\ search.prev_progress < search.progress
    /\ search.progress < 128

\* the number of comparators of the group g that overlap c, counted over the
\* whole group
CountInGroup(g, c) == Cardinality({d \in Range(g) : Overlaps(c, d)})

\* c is taken before d: fewer overlaps, then the larger hi - lo, then the
\* smaller lo
TakenBefore(g, c, d) ==
    \/ CountInGroup(g, c) < CountInGroup(g, d)
    \/ /\ CountInGroup(g, c) = CountInGroup(g, d)
       /\ c.i2 - c.i1 > d.i2 - d.i1
    \/ /\ CountInGroup(g, c) = CountInGroup(g, d)
       /\ c.i2 - c.i1 = d.i2 - d.i1
       /\ c.i1 < d.i1

\* the orderings of the list g
Orderings(g) ==
    {[k \in 1..Len(g) |-> g[f[k]]] :
        f \in {h \in [1..Len(g) -> 1..Len(g)] : \A j, k \in 1..Len(g) : h[j] = h[k] => j = k}}

\* C19: for a group of pairwise wire-disjoint comparators
\* _optimize_comparator_depth_group returns a permutation of the group in
\* which each comparator is the one of those not yet emitted with the
\* smallest overlap count (counted once over the whole group), then the
\* largest hi - lo, then the smallest lo; every ordering of the group gives
\* the same output.
C19_GroupOrder ==
    op = "_optimize_comparator_depth_group" =>
        /\ err = NoErr
        /\ IsPermutation(ret, arg)
        /\ \A j \in 1..Len(ret), k \in 1..Len(ret) :
              j < k => TakenBefore(arg, ret[j], ret[k])
        /\ \A g \in Orderings(arg) : OptimizeComparatorDepthGroup(g) = ret

\* the group of the repository's test, where the overlap count puts 3:4
\* before the longer 1:5
C19_Witness ==
    /\ op = "_optimize_comparator_depth_group"
    /\ arg = <<[i1 |-> 1, i2 |-> 5], [i1 |-> 3, i2 |-> 4], [i1 |-> 0, i2 |-> 2]>>
    /\ ret = <<[i1 |-> 0, i2 |-> 2], [i1 |-> 3, i2 |-> 4], [i1 |-> 1, i2 |-> 5]>>

\* the lists of n items with keys 0 .. ReorderVal
ItemLists(n) ==
    {[j \in 1..n |-> Item(ks[j], j)] : ks \in [1..n -> 0..ReorderVal]}

\* C20: the compare-exchange steps applied in the order returned by
\* _get_optimized_comparators give, for every binary input and every list of
\* items, the final sequence that sort_binary_sequence and sort_sequence
\* give in the order of the network.
C20_ReorderKeepsBehaviour ==
    (op = "_get_optimized_comparators" /\ ret # comparators) =>
        /\ \A x \in 0..(Pow2(WireCount(comparators)) - 1) :
              BinaryLoop(ret, 1, x) = SortBinarySequence(comparators, x).val
        /\ \A items \in ItemLists(WireCount(comparators)) :
              /\ SortSequence(comparators, items).err = NoErr
              /\ SequenceLoop(ret, 1, items) = SortSequence(comparators, items).val

\* the scheduler has moved 2:3 before the second 0:1, and both orders send
\* the input with wires 0 and 2 set to the one with wires 1 and 3 set
C20_Witness ==
    /\ op = "_get_optimized_comparators"
    /\ comparators = <<[i1 |-> 0, i2 |-> 1], [i1 |-> 0, i2 |-> 1], [i1 |-> 2, i2 |-> 3]>>
    /\ ret = <<[i1 |-> 0, i2 |-> 1], [i1 |-> 2, i2 |-> 3], [i1 |-> 0, i2 |-> 1]>>
    /\ SortBinarySequence(comparators, 5).val = 10
    /\ BinaryLoop(ret, 1, 5) = 10

\* the list [bit 0 of x, ..., bit n-1 of x]
Bits(x, n) == [j \in 1..n |-> Bit(x, j - 1)]

\* the list of n items whose keys are the bits of x, in wire order
BitItems(x, n) == [j \in 1..n |-> Item(Bit(x, j - 1), j)]

\* the integer whose bits are the keys of the list, in wire order
RECURSIVE BitsValue(_)
BitsValue(ks) ==
    IF Len(ks) = 0 THEN 0
    ELSE ks[1] + 2 * BitsValue(Tail(ks))

\* C21: for a non-empty network and x below 2^wireCount, sort_sequence
\* applied to the list of the bits of x returns the list of the bits of
\* sort_binary_sequence(x), in the same wire order.
C21_SemanticsAgreeOnBits ==
    Len(comparators) > 0 =>
        LET n == WireCount(comparators)
        IN  /\ (op = "sort_binary_sequence" /\ arg < Pow2(n)) =>
                  /\ SortSequence(comparators, BitItems(arg, n)).err = NoErr
                  /\ Keys(SortSequence(comparators, BitItems(arg, n)).val) = Bits(ret, n)
            /\ (op = "sort_sequence" /\ err = NoErr
                   /\ \A j \in 1..Len(arg) : arg[j].key \in {0, 1}) =>
                  /\ Len(ret) = n
                  /\ Keys(ret) = Bits(SortBinarySequence(comparators, BitsValue(Keys(arg))).val, n)

\* sort_sequence has turned the bits of 3 into the bits of 5 under "0:1,1:2",
\* as sort_binary_sequence turns 3 into 5
C21_Witness ==
    /\ op = "sort_sequence"
    /\ err = NoErr
    /\ comparators = <<[i1 |-> 0, i2 |-> 1], [i1 |-> 1, i2 |-> 2]>>
    /\ Keys(arg) = <<1, 1, 0>>
    /\ Keys(ret) = <<1, 0, 1>>
    /\ SortBinarySequence(comparators, 3).val = 5

====
